---- MODULE Spec2Model ----
(***************************************************************************)
(* Streaming feature/decode scheduler of the streaming Zipformer baseline   *)
(* (track2_starting_kit/streaming_zipformer/model.py): the DecodeStream     *)
(* subclass (raw audio -> Fbank frames, full and incremental mode) and the  *)
(* Model facade (reset / accept_chunk / input_finished / callback).         *)
(*                                                                         *)
(* Audio is modelled by sample positions: a chunk is a number of samples,   *)
(* a frame is the start position of its analysis window plus a flag saying  *)
(* whether it was computed as the first frame of a slice not starting at    *)
(* sample 0 (the edge effect of the feature transform).                     *)
(***************************************************************************)
EXTENDS Integers, Sequences, FiniteSets, TLC

\* ---------------------------------------------------------------- bounds
\* config.audio.sample_rate, scaled down so that a frame is a few samples
sample_rate == 200
\* config.encoder.chunk_size (frames per decode step)
chunk_size == 8
\* chunk lengths (in samples) the caller may pass to accept_chunk
ShortChunk == 3
LongChunk == 61
\* sample positions of the shorter stereo chunk the caller may pass
StereoShort == 2
\* operations per session, and sessions per Model
MaxOps == 4
MaxResets == 2
MaxCallbackSets == 2
\* calls standing in the logs of two Models together
MaxPairOps == 4
\* a DecodeStream driven directly: calls per stream, samples per chunk
MaxStreamOps == 4
MaxChunkLen == 7

\* ------------------------------------------------------ program constants
FRAME_SHIFT_MS == 10
FRAME_LENGTH_MS == 25
TAIL_MARGIN == 30

\* pad_length of the base DecodeStream (right context of the encoder)
pad_length == 13

frame_shift == (sample_rate * FRAME_SHIFT_MS) \div 1000
frame_length == (sample_rate * FRAME_LENGTH_MS) \div 1000
\* int(config.audio.sample_rate * 0.3): the silence appended by input_finished
TailSamples == (sample_rate * 3) \div 10

ChunkLens == {0, ShortChunk, LongChunk}
Callbacks == {"cb1", "cb2"}
NoCallback == "None"
Modes == {"full", "incremental"}

\* ------------------------------------------------------------- sequences
RECURSIVE SumSeq(_)
SumSeq(s) == IF s = <<>> THEN 0 ELSE Head(s) + SumSeq(Tail(s))

RECURSIVE Flatten(_)
Flatten(ss) == IF ss = <<>> THEN <<>> ELSE Head(ss) \o Flatten(Tail(ss))

IsPrefix(s, t) == Len(s) <= Len(t) /\ SubSeq(t, 1, Len(s)) = s

Drop(s, n) == SubSeq(s, n + 1, Len(s))

\* ------------------------------------------------------ feature extractor
\* A frame of the feature sequence: the samples its analysis window covers
\* (first and last sample of the window) and whether it is the first frame
\* of the extractor call that produced it.
Frame(audio, i) ==
    [lo |-> audio[(i - 1) * frame_shift + 1],
     hi |-> audio[(i - 1) * frame_shift + frame_length],
     first |-> (i = 1),
     pad |-> FALSE]

\* The LOG_EPS sentinel frame used for tail padding.
PadFrame == [lo |-> -1, hi |-> -1, first |-> FALSE, pad |-> TRUE]

\* Number of frames of a signal of len samples: a window of frame_length
\* samples shifted by frame_shift, no frame for less than one window.
NumFbankFrames(len) ==
    IF len < frame_length THEN 0 ELSE (len - frame_length) \div frame_shift + 1

\* self._fbank(audio).  The extractor keeps no state between calls, so the
\* first frame of a call on a slice that does not start at sample 0 is not
\* the frame the full signal has at that position.
Fbank(audio) == [i \in 1..NumFbankFrames(Len(audio)) |-> Frame(audio, i)]

\* torch.nn.functional.pad(feats, (0, 0, 0, n), value=LOG_EPS)
\* and torch.full((n, 80), LOG_EPS) when feats is empty
PadTail(feats, n) == feats \o [i \in 1..n |-> PadFrame]

\* faulty variant: merging the chunk list keeps only the newest chunk
CatLastOnly(chunks) == IF chunks = <<>> THEN <<>> ELSE chunks[Len(chunks)]

\* torch.cat(self._audio_samples)
Cat(chunks) == Flatten(chunks)

\* ---------------------------------------------------------- DecodeStream
\* get_init_states(model, 1, device): the initial recurrent state
InitStates == 0

\* DecodeStream.__init__ (with the fields of the base class it extends);
\* audio_dims holds the number of dimensions of each buffered tensor, raised
\* says that an exception is on its way out of a method of the stream
NewStream(incremental) ==
    [incremental |-> incremental,
     audio_samples |-> <<>>,
     audio_dims |-> <<>>,
     raised |-> FALSE,
     is_input_finished |-> FALSE,
     num_stable_frames |-> 0,
     total_audio_samples |-> 0,
     features |-> <<>>,
     num_frames |-> 0,
     num_processed_frames |-> 0,
     done |-> FALSE,
     states |-> InitStates,
     hyp |-> <<>>]

\* Model._stream = None
None == [none |-> TRUE]

\* torch.cat(self._audio_samples) raises on tensors of different dimensions
CatRaises(dims) == \E i, j \in DOMAIN dims : dims[i] # dims[j]

\* the feature extractor takes a 1-D waveform and raises on any other
FbankRaises(dims) == dims # <<>> /\ dims[1] # 1

\* concatenating the buffered tensors and extracting features raises
ExtractionRaises(dims) == CatRaises(dims) \/ FbankRaises(dims)

\* DecodeStream._recompute_features
RecomputeFeatures(s) ==
    IF s.audio_samples = <<>> THEN s
    ELSE IF ExtractionRaises(s.audio_dims) THEN [s EXCEPT !.raised = TRUE]
    ELSE LET audio == Cat(s.audio_samples)
             feats0 == Fbank(audio)
             feats == IF s.is_input_finished
                      THEN PadTail(feats0, pad_length + TAIL_MARGIN)
                      ELSE feats0
         IN [s EXCEPT !.features = feats, !.num_frames = Len(feats)]

\* faulty variant: the recomputed overlap frame is kept
KeepOverlapFrame(new_feats) == new_feats

\* new_feats[1:]
DropOverlapFrame(new_feats) == IF new_feats = <<>> THEN <<>> ELSE Tail(new_feats)

\* faulty variant: re-extraction starts one frame shift too late
OverlapSampleLate(s) == s.num_stable_frames * frame_shift

\* the sample at which re-extraction starts: the start of the last stable frame
OverlapSample(s) == (s.num_stable_frames - 1) * frame_shift

\* faulty variant: the overlap frame alone is taken to be enough
EnoughForOverlapOnly(available) == available >= frame_length

\* "enough for overlap + >= 1 new frame"
EnoughForNewFrame(available) == available >= frame_length + frame_shift

\* DecodeStream._compute_features_incremental, lines 194-213
ExtractIncremental(s) ==
    IF s.num_stable_frames = 0
    THEN IF s.total_audio_samples >= frame_length
         THEN IF ExtractionRaises(s.audio_dims) THEN [s EXCEPT !.raised = TRUE] ELSE
              LET audio == Cat(s.audio_samples)
                  feats == Fbank(audio)
              IN [s EXCEPT !.audio_samples = <<audio>>,
                           !.audio_dims = <<1>>,
                           !.features = feats,
                           !.num_stable_frames = Len(feats)]
         ELSE s
    ELSE LET overlap_sample == OverlapSample(s)
             available == s.total_audio_samples - overlap_sample
         IN IF EnoughForNewFrame(available)
            THEN IF ExtractionRaises(s.audio_dims) THEN [s EXCEPT !.raised = TRUE] ELSE
                 LET audio == Cat(s.audio_samples)
                     new_feats == DropOverlapFrame(Fbank(Drop(audio, overlap_sample)))
                 IN IF Len(new_feats) > 0
                    THEN [s EXCEPT !.audio_samples = <<audio>>,
                                   !.audio_dims = <<1>>,
                                   !.features = @ \o new_feats,
                                   !.num_stable_frames = Len(s.features) + Len(new_feats)]
                    ELSE [s EXCEPT !.audio_samples = <<audio>>,
                                   !.audio_dims = <<1>>]
            ELSE s

\* faulty variant: the tail margin is forgotten on the incremental path
PadIncrementalNoMargin(s) ==
    IF s.is_input_finished
    THEN IF s.num_stable_frames > 0
         THEN [s EXCEPT !.features = PadTail(@, pad_length)]
         ELSE [s EXCEPT !.features = PadTail(<<>>, pad_length)]
    ELSE s

\* faulty variant: nothing is emitted when no stable frame exists
PadIncrementalOnlyStable(s) ==
    IF s.is_input_finished /\ s.num_stable_frames > 0
    THEN [s EXCEPT !.features = PadTail(@, pad_length + TAIL_MARGIN)]
    ELSE s

\* DecodeStream._compute_features_incremental, lines 215-234
PadIncremental(s) ==
    IF s.is_input_finished
    THEN IF s.num_stable_frames > 0
         THEN [s EXCEPT !.features = PadTail(@, pad_length + TAIL_MARGIN)]
         ELSE [s EXCEPT !.features = PadTail(<<>>, pad_length + TAIL_MARGIN)]
    ELSE s

\* DecodeStream._compute_features_incremental
ComputeFeaturesIncremental(s) ==
    IF s.audio_samples = <<>> THEN s
    ELSE LET s1 == ExtractIncremental(s)
             s2 == PadIncremental(s1)
         IN IF s1.raised THEN s1
            ELSE IF s2.is_input_finished \/ s2.num_stable_frames > 0
            THEN [s2 EXCEPT !.num_frames = Len(s2.features)]
            ELSE s2

\* faulty variant: a chunk shorter than one analysis window is thrown away
AcceptTensorDropsShort(s, data, ndim) ==
    IF Len(data) < frame_length THEN s
    ELSE LET s1 == [s EXCEPT !.audio_samples = Append(@, data),
                             !.audio_dims = Append(@, ndim)]
         IN IF s.incremental
            THEN ComputeFeaturesIncremental(
                     [s1 EXCEPT !.total_audio_samples = @ + Len(data)])
            ELSE RecomputeFeatures(s1)

\* DecodeStream.accept_waveform with a tensor of ndim dimensions whose
\* elements are data (numel() of them)
AcceptTensor(s, data, ndim) ==
    LET s1 == [s EXCEPT !.audio_samples = Append(@, data),
                        !.audio_dims = Append(@, ndim)]
    IN IF s.incremental
       THEN ComputeFeaturesIncremental(
                [s1 EXCEPT !.total_audio_samples = @ + Len(data)])
       ELSE RecomputeFeatures(s1)

\* DecodeStream.accept_waveform with a 1-D waveform
AcceptWaveform(s, waveform) == AcceptTensor(s, waveform, 1)

\* faulty variant: ready only with more frames than the boundary
is_ready_strict(s, cs) == (s.num_frames - s.num_processed_frames) > cs * 2 + pad_length

\* faulty variant: ready whenever the cursor has not passed the last frame
is_ready_any(s, cs) == (s.num_frames - s.num_processed_frames) >= 0

\* faulty variant: ready with one chunk of frames, the look-ahead forgotten
is_ready_one_chunk(s, cs) == (s.num_frames - s.num_processed_frames) >= cs

\* DecodeStream.is_ready
is_ready(s, cs) == (s.num_frames - s.num_processed_frames) >= cs * 2 + pad_length

\* faulty variant: the flag is set, the tail padding is not computed
StreamInputFinishedNoPad(s) == [s EXCEPT !.is_input_finished = TRUE]

\* DecodeStream.input_finished
StreamInputFinished(s) ==
    LET s1 == [s EXCEPT !.is_input_finished = TRUE]
    IN IF s.incremental THEN ComputeFeaturesIncremental(s1) ELSE RecomputeFeatures(s1)

\* ------------------------------------------- external collaborators
\* Tokenizer: the pieces of the vocabulary (token 1 starts a word, token 2
\* continues one) ...
Piece(tok) == IF tok = 1 THEN <<" ", "a">> ELSE <<"b">>

RECURSIVE Pieces(_)
Pieces(toks) == IF toks = <<>> THEN <<>> ELSE Piece(Head(toks)) \o Pieces(Tail(toks))

\* ... and self._sp.decode(ids): the pieces joined, the leading space dropped
Detok(toks) ==
    LET txt == Pieces(toks)
    IN IF txt # <<>> /\ Head(txt) = " " THEN Tail(txt) ELSE txt

\* stream.decoding_result(): the token ids of the hypothesis
DecodingResult(s) == s.hyp

\* The frames one decode step reads: the unprocessed frames, at most
\* 2*chunk_size + pad_length of them.
DecodeWindow(s) ==
    SubSeq(s.features, s.num_processed_frames + 1,
           IF s.num_frames - s.num_processed_frames < 2 * chunk_size + pad_length
           THEN s.num_frames
           ELSE s.num_processed_frames + 2 * chunk_size + pad_length)

FrameCode(f) == IF f.pad THEN 1 ELSE 2 * f.lo + 3 * f.hi + (IF f.first THEN 5 ELSE 0)

RECURSIVE WindowCode(_)
WindowCode(w) == IF w = <<>> THEN 0 ELSE FrameCode(Head(w)) + WindowCode(Tail(w))

\* The acoustic model is a deterministic function of the window it reads and
\* of the recurrent state it carries; AcousticMix stands for its weights.
AcousticMix(s) == (s.states * 5 + WindowCode(DecodeWindow(s)) + 1) % 13

EmittedTokens(h) ==
    CASE h % 4 = 0 -> <<>>
      [] h % 4 = 1 -> <<1>>
      [] h % 4 = 2 -> <<2>>
      [] OTHER     -> <<2, 1>>

\* The step reports exhaustion ("no further chunk can currently be decoded")
\* as the acoustic model decides; the stream may or may not be done then.
ReportsExhaustion(h) == h \in {5, 12}
StreamDone(h) == h = 12

\* decode_one_chunk(params, model, [stream]): consumes one chunk_size-worth
\* of unprocessed frames, carries the recurrent state, appends the emitted
\* token ids to the hypothesis; finished is its return value.
DecodeOneChunk(s) ==
    LET h == AcousticMix(s)
    IN [stream |-> [s EXCEPT !.num_processed_frames = @ + chunk_size,
                             !.states = h,
                             !.hyp = @ \o EmittedTokens(h),
                             !.done = StreamDone(h)],
        finished |-> ReportsExhaustion(h)]

\* ------------------------------------------------------------ the Model
VARIABLES
    mode,              \* config features.mode
    partial_callback,  \* Model._partial_callback
    stream,            \* Model._stream
    events,            \* what the caller observed since the last reset
    ops,               \* the calls made since the last reset
    resets,            \* number of reset() calls so far
    cbsets,            \* number of set_partial_callback() calls so far
    prev,              \* the calls and observations of the session before
    acoustic_fault,    \* the acoustic model of this process fails on some windows
    other              \* a second Model of the process: its callback, stream,
                       \* observations and calls

vars == <<mode, partial_callback, stream, events, ops, resets, cbsets, prev,
          acoustic_fault, other>>

\* One observation: a call entered, a decode step ran, the callback was
\* invoked, the call returned a text, or the call raised.
Ev(kind, info, s, avail, text) ==
    [kind |-> kind, info |-> info, cb |-> partial_callback,
     cursor |-> IF s = None THEN 0 ELSE s.num_processed_frames,
     avail |-> avail,
     hyp |-> IF s = None THEN <<>> ELSE s.hyp,
     text |-> text]

Op(name, n, cb) == [op |-> name, n |-> n, cb |-> cb]

\* faulty variant: the loop goes on to the callback whatever the step returned
NeverBreaks(finished) == FALSE

\* faulty variant: the test is inverted, the loop goes on after exhaustion
BreaksInverted(finished) == ~finished

\* if decode_one_chunk(...): break
BreaksLoop(finished) == finished

\* the loop condition of Model._decode_available
LoopContinues(s) == is_ready(s, chunk_size) /\ ~s.done

\* faulty variant: the callback gets the tokens of the latest step only
CallbackDelta(before, after) ==
    Detok(Drop(DecodingResult(after), Len(DecodingResult(before))))

\* faulty variant: the text is taken before the decode step
CallbackStale(before, after) == Detok(DecodingResult(before))

\* text = self._sp.decode(self._stream.decoding_result())
CallbackText(before, after) == Detok(DecodingResult(after))

\* The windows on which a faulty acoustic model raises an internal error.
FaultCodes == {3, 9}
StepRaises(h) == acoustic_fault /\ h \in FaultCodes

\* faulty variant: the error of the step is caught and the loop left quietly
StepFailureSwallowed(s, evs) ==
    [stream |-> s,
     events |-> Append(evs, Ev("err", "InternalError", s,
                               s.num_frames - s.num_processed_frames, <<>>)),
     raised |-> FALSE]

\* decode_one_chunk raised: nothing in _decode_available, accept_chunk or
\* input_finished catches it, the call ends with the error
StepFailure(s, evs) ==
    [stream |-> s,
     events |-> Append(evs, Ev("err", "InternalError", s,
                               s.num_frames - s.num_processed_frames, <<>>)),
     raised |-> TRUE]

\* Model._decode_available: the stream, the observations and whether the
\* call raised, after decoding as many chunks as the stream has ready
RECURSIVE DecodeAvailable(_, _, _)
DecodeAvailable(s, cb, evs) ==
    IF ~LoopContinues(s)
    THEN [stream |-> s, events |-> evs, raised |-> FALSE]
    ELSE IF StepRaises(AcousticMix(s))
    THEN StepFailure(s, evs)
    ELSE LET r == DecodeOneChunk(s)
             avail == s.num_frames - s.num_processed_frames
             evs1 == Append(evs, Ev("step", IF r.finished THEN "finished" ELSE "more",
                                    r.stream, avail, <<>>))
         IN IF BreaksLoop(r.finished)
            THEN [stream |-> r.stream, events |-> evs1, raised |-> FALSE]
            ELSE IF cb = NoCallback
                 THEN \* self._partial_callback(text) with None: TypeError
                      [stream |-> r.stream,
                       events |-> Append(evs1, Ev("err", "TypeError", r.stream, 0, <<>>)),
                       raised |-> TRUE]
                 ELSE DecodeAvailable(r.stream, cb,
                          Append(evs1, Ev("cb", cb, r.stream, 0, CallbackText(s, r.stream))))

\* faulty variant: the returned text is taken before the decode loop
ReturnedStale(r, op) ==
    IF r.raised THEN r.events
    ELSE LET calls == {i \in DOMAIN r.events : r.events[i].kind = "call"}
             entry == CHOOSE i \in calls : \A k \in calls : k <= i
         IN Append(r.events, Ev("ret", op, r.stream, 0, Detok(r.events[entry].hyp)))

\* faulty variant: the returned text is the one last given to the callback
ReturnedLastPartial(r, op) ==
    IF r.raised THEN r.events
    ELSE LET cbs == {i \in DOMAIN r.events : r.events[i].kind = "cb"}
             last == CHOOSE i \in cbs : \A k \in cbs : k <= i
         IN Append(r.events,
                   Ev("ret", op, r.stream, 0,
                      IF cbs = {} THEN <<>> ELSE r.events[last].text))

\* return self._sp.decode(self._stream.decoding_result())
Returned(r, op) ==
    IF r.raised THEN r.events
    ELSE Append(r.events, Ev("ret", op, r.stream, 0, Detok(DecodingResult(r.stream))))

\* the samples of the next chunk of n samples: numbered in arrival order
Received == SumSeq([i \in 1..Len(ops) |-> ops[i].n])
NextChunk(n) == [i \in 1..n |-> Received + i]
\* faulty variant: input_finished feeds no silence before finishing
SilenceTailMissing == <<>>
\* np.zeros(int(config.audio.sample_rate * 0.3))
SilenceTail == [i \in 1..TailSamples |-> 0]

NoPrev == [ops |-> <<>>, events |-> <<>>]

\* a Model as its constructor leaves it
NoOther == [partial_callback |-> NoCallback, stream |-> None,
            events |-> <<>>, ops |-> <<>>]

\* faulty variant: the constructor already creates a stream
InitialStreamReady == NewStream(FALSE)

\* self._stream = None  (created fresh in reset() for each audio file)
InitialStream == None

\* Model.__init__
Init ==
    /\ mode \in Modes
    /\ partial_callback = NoCallback
    /\ stream = InitialStream
    /\ prev = NoPrev
    /\ events = <<>>
    /\ ops = <<>>
    /\ resets = 0
    /\ cbsets = 0
    /\ acoustic_fault = FALSE
    /\ other = NoOther

\* Model.set_partial_callback
SetPartialCallback(cb) ==
    /\ cbsets < MaxCallbackSets
    /\ Len(ops) < MaxOps
    /\ partial_callback' = cb
    /\ cbsets' = cbsets + 1
    /\ ops' = Append(ops, Op("set_partial_callback", 0, cb))
    /\ UNCHANGED <<acoustic_fault, other, mode, stream, events, resets, prev>>

\* faulty variant: the hypothesis of the stream before is carried over
StaleStream ==
    [NewStream(mode = "incremental") EXCEPT
        !.hyp = IF stream = None THEN <<>> ELSE stream.hyp]

\* faulty variant: the cursor and the finished flag of the stream before
\* are carried over
KeptCursorStream ==
    [NewStream(mode = "incremental") EXCEPT
        !.num_processed_frames =
            IF stream = None THEN 0 ELSE stream.num_processed_frames,
        !.is_input_finished =
            IF stream = None THEN FALSE ELSE stream.is_input_finished]

\* faulty variant: the raw audio buffer is one list shared by all streams
SharedBufferStream ==
    [NewStream(mode = "incremental") EXCEPT
        !.audio_samples =
            IF other.stream = None THEN <<>> ELSE other.stream.audio_samples,
        !.audio_dims =
            IF other.stream = None THEN <<>> ELSE other.stream.audio_dims]

\* the stream reset() creates
FreshStream == NewStream(mode = "incremental")

\* faulty variant: reset() also forgets the registered callback
ResetModelClearsCallback ==
    /\ resets < MaxResets
    /\ stream' = FreshStream
    /\ events' = <<>>
    /\ ops' = <<Op("reset", 0, partial_callback)>>
    /\ resets' = resets + 1
    /\ partial_callback' = NoCallback
    /\ UNCHANGED <<acoustic_fault, other, mode, cbsets>>

\* Model.reset
ResetModel ==
    /\ resets < MaxResets
    /\ stream' = FreshStream
    /\ events' = <<>>
    /\ ops' = <<Op("reset", 0, partial_callback)>>
    /\ resets' = resets + 1
    /\ UNCHANGED <<acoustic_fault, other, mode, partial_callback, cbsets>>

Reset == ResetModel /\ UNCHANGED prev

\* an exception left accept_waveform or input_finished of the stream: the
\* call ends with it, the stream stays as the failed method left it
StreamRaised(fed, entered) ==
    [stream |-> [fed EXCEPT !.raised = FALSE],
     events |-> Append(entered, Ev("err", "RuntimeError", fed, 0, <<>>))]

\* Model.accept_chunk on a Model with stream s, observations evs and
\* callback cb, the chunk given as a tensor of ndim dimensions with the
\* elements data: the stream and the observations after the call
AcceptChunkResult(s, evs, cb, data, ndim) ==
    LET entered == Append(evs, Ev("call", "accept_chunk", s, 0, <<>>))
    IN IF s = None
       THEN \* self._stream.accept_waveform on None: AttributeError
            [stream |-> s,
             events |-> Append(entered, Ev("err", "AttributeError", s, 0, <<>>))]
       ELSE LET fed == AcceptTensor(s, data, ndim)
                r == DecodeAvailable(fed, cb, entered)
            IN IF fed.raised
               THEN StreamRaised(fed, entered)
               ELSE [stream |-> r.stream, events |-> Returned(r, "accept_chunk")]

\* Model.accept_chunk with a chunk of n sample positions
AcceptChunkOf(name, n, data, ndim) ==
    /\ Len(ops) < MaxOps
    /\ ops' = Append(ops, Op(name, n, partial_callback))
    /\ LET res == AcceptChunkResult(stream, events, partial_callback, data, ndim)
       IN /\ stream' = res.stream
          /\ events' = res.events
    /\ UNCHANGED <<acoustic_fault, other, mode, partial_callback, resets, cbsets, prev>>

\* Model.accept_chunk with a mono chunk (a 1-D array of n samples)
AcceptChunk(n) == AcceptChunkOf("accept_chunk", n, NextChunk(n), 1)

\* Model.input_finished on a Model with stream s, observations evs and
\* callback cb: the stream and the observations after the call
InputFinishedResult(s, evs, cb) ==
    LET entered == Append(evs, Ev("call", "input_finished", s, 0, <<>>))
    IN IF s = None
       THEN [stream |-> s,
             events |-> Append(entered, Ev("err", "AttributeError", s, 0, <<>>))]
       ELSE LET fed == AcceptWaveform(s, SilenceTail)
                fin == StreamInputFinished(fed)
                r == DecodeAvailable(fin, cb, entered)
            IN IF fed.raised THEN StreamRaised(fed, entered)
               ELSE IF fin.raised THEN StreamRaised(fin, entered)
               ELSE [stream |-> r.stream, events |-> Returned(r, "input_finished")]

\* Model.input_finished
InputFinished ==
    /\ Len(ops) < MaxOps
    /\ ops' = Append(ops, Op("input_finished", 0, partial_callback))
    /\ LET res == InputFinishedResult(stream, events, partial_callback)
       IN /\ stream' = res.stream
          /\ events' = res.events
    /\ UNCHANGED <<acoustic_fault, other, mode, partial_callback, resets, cbsets, prev>>

Next ==
    \/ \E cb \in Callbacks : SetPartialCallback(cb)
    \/ Reset
    \/ \E n \in ChunkLens : AcceptChunk(n)
    \/ InputFinished

Spec == Init /\ [][Next]_vars

\* ------------------------------------------- a failing acoustic model
\* The same Model in a process whose acoustic step raises on some windows.
InitFault ==
    /\ mode \in Modes
    /\ partial_callback = NoCallback
    /\ stream = InitialStream
    /\ prev = NoPrev
    /\ events = <<>>
    /\ ops = <<>>
    /\ resets = 0
    /\ cbsets = 0
    /\ acoustic_fault = TRUE
    /\ other = NoOther

SpecFault == InitFault /\ [][Next]_vars

\* ------------------------------------------------ chunks of two channels
\* The caller may also pass a stereo chunk: an array of n sample positions
\* with two values each, which torch.from_numpy turns into a 2-D tensor of
\* 2n elements.
StereoLens == {StereoShort, ShortChunk}
StereoChunk(n) == [i \in 1..2 * n |-> Received + (i + 1) \div 2]

\* Model.accept_chunk with a stereo chunk
AcceptChunkStereo(n) == AcceptChunkOf("accept_chunk_stereo", n, StereoChunk(n), 2)

NextLayout ==
    \/ Next
    \/ \E n \in StereoLens : AcceptChunkStereo(n)

SpecLayout == Init /\ [][NextLayout]_vars

\* ------------------------------------------------------------ two Models
\* The process holds two Model objects and the caller drives both, turning
\* from one to the other between calls; the variables partial_callback,
\* stream, events and ops are those of the Model the caller is turned to.
Me == [partial_callback |-> partial_callback, stream |-> stream,
       events |-> events, ops |-> ops]

Swap ==
    /\ other' = Me
    /\ partial_callback' = other.partial_callback
    /\ stream' = other.stream
    /\ events' = other.events
    /\ ops' = other.ops
    /\ UNCHANGED <<mode, resets, cbsets, prev, acoustic_fault>>

\* the two logs stay within MaxPairOps calls, and a Model is reset before
\* chunks are fed to it
PairBudget ==
    /\ Len(ops) + Len(other.ops) < MaxPairOps
    /\ stream = None => (stream' # None \/ cbsets' > cbsets)
    /\ stream # None => cbsets' = cbsets

NextPair ==
    \/ Next /\ PairBudget
    \/ Swap

SpecPair == Init /\ [][NextPair]_vars

\* ----------------------------------------------------- replayed sessions
\* The caller runs one session, then resets and replays the calls of that
\* session: from the second reset on, only the calls of the session before
\* are made, in their order.
Replays == resets' < 2 \/ IsPrefix(ops', prev'.ops)

ResetReplay ==
    /\ ResetModel
    /\ prev' = IF resets = 0 THEN NoPrev ELSE [ops |-> ops, events |-> events]
    /\ Replays

SetPartialCallbackReplay(cb) == SetPartialCallback(cb) /\ Replays
AcceptChunkReplay(n) == AcceptChunk(n) /\ Replays
InputFinishedReplay == InputFinished /\ Replays

NextReplay ==
    \/ \E cb \in Callbacks : SetPartialCallbackReplay(cb)
    \/ ResetReplay
    \/ \E n \in ChunkLens : AcceptChunkReplay(n)
    \/ InputFinishedReplay

SpecReplay == Init /\ [][NextReplay]_vars

\* ------------------------------------------- a DecodeStream on its own
\* The stream driven directly through accept_waveform and input_finished,
\* with chunks of every length up to MaxChunkLen.
InitStream ==
    /\ mode \in Modes
    /\ partial_callback = NoCallback
    /\ stream = NewStream(mode = "incremental")
    /\ prev = NoPrev
    /\ events = <<>>
    /\ ops = <<>>
    /\ resets = 0
    /\ cbsets = 0
    /\ acoustic_fault = FALSE
    /\ other = NoOther

\* DecodeStream.accept_waveform
StreamAccept(n) ==
    /\ Len(ops) < MaxStreamOps
    /\ stream' = AcceptWaveform(stream, NextChunk(n))
    /\ ops' = Append(ops, Op("accept_waveform", n, NoCallback))
    /\ UNCHANGED <<acoustic_fault, other, mode, partial_callback, events, resets, cbsets, prev>>

\* DecodeStream.input_finished
StreamFinish ==
    /\ Len(ops) < MaxStreamOps
    /\ stream' = StreamInputFinished(stream)
    /\ ops' = Append(ops, Op("stream_input_finished", 0, NoCallback))
    /\ UNCHANGED <<acoustic_fault, other, mode, partial_callback, events, resets, cbsets, prev>>

NextStream ==
    \/ \E n \in 0..MaxChunkLen : StreamAccept(n)
    \/ StreamFinish

SpecStream == InitStream /\ [][NextStream]_vars

\* ------------------------------------------------------------- claims
Threshold == 2 * chunk_size + pad_length
Last(s) == s[Len(s)]
Positions(kind) == {i \in DOMAIN events : events[i].kind = kind}
AcceptedLens == [i \in 1..Len(ops) |-> ops[i].n]
OpPositions(name) == {i \in DOMAIN ops : ops[i].op = name}

\* the session so far kept to the lifecycle (chunks, then at most one
\* input_finished as the last call) and no call raised
ProperSession ==
    /\ Positions("err") = {}
    /\ \A i \in OpPositions("input_finished") : i = Len(ops)

\* The stream a full-recompute DecodeStream is after the whole signal
\* received so far was passed to accept_waveform as one chunk.
FullOneChunk == AcceptWaveform(NewStream(FALSE), [i \in 1..Received |-> i])

\* C1: after any split of a signal into chunks was passed to accept_waveform,
\* an incremental stream holds the same number of frames and frame for frame
\* the same frames (same window, none of them the first frame of a sub-slice)
\* as a full-recompute stream that got the signal as one chunk.
C1_IncrementalEqualsFull ==
    (stream # None /\ stream.incremental /\ ~stream.is_input_finished)
        => /\ stream.features = FullOneChunk.features
           /\ stream.num_frames = FullOneChunk.num_frames

\* an incremental stream that extracted frames a second time, over an overlap
C1_Witness ==
    /\ stream # None /\ stream.incremental /\ ~stream.is_input_finished
    /\ \E i \in DOMAIN ops :
          /\ ops[i].op \in {"accept_chunk", "accept_waveform"}
          /\ NumFbankFrames(SumSeq(SubSeq(AcceptedLens, 1, i))) > 0
          /\ stream.num_frames > NumFbankFrames(SumSeq(SubSeq(AcceptedLens, 1, i)))

\* a call returned whose loop ended because the stream was not ready (not
\* because a step reported exhaustion, nor because the stream is done)
ReturnedNotReady ==
    /\ stream # None /\ ~stream.done
    /\ Len(events) > 1 /\ Last(events).kind = "ret"
    /\ ~(events[Len(events) - 1].kind = "step"
            /\ events[Len(events) - 1].info = "finished")

\* C2: a decode step runs exactly when total - processed >= 2*chunk_size +
\* pad_length: every step that ran had that many unprocessed frames, and a
\* call whose loop ended for want of readiness left fewer than that.
C2_ReadyIffEnoughFrames ==
    /\ \A i \in Positions("step") : events[i].avail >= Threshold
    /\ ReturnedNotReady
          => stream.num_frames - stream.num_processed_frames < Threshold

\* a step ran with exactly the boundary number of frames, and a call
\* returned with one frame less than the boundary left
C2_Witness ==
    /\ ReturnedNotReady
    /\ \E i \in Positions("step") : events[i].avail = Threshold
    /\ stream.num_frames - stream.num_processed_frames = Threshold - 1

\* C3: the processed-frames cursor never exceeds the total number of frames
\* and never decreases within a session, neither from one call to the next
\* nor from one decode step to the next inside a call.
C3_CursorBounded ==
    stream # None =>
        /\ stream.num_processed_frames <= stream.num_frames
        /\ \A i \in Positions("step") :
              /\ i > 1
              /\ events[i].cursor >= events[i - 1].cursor
              /\ events[i].cursor - events[i - 1].cursor <= events[i].avail

C3_CursorMonotoneBounded ==
    /\ []C3_CursorBounded
    /\ [][(stream # None /\ stream' # None /\ resets' = resets)
             => stream'.num_processed_frames >= stream.num_processed_frames]_vars

\* the cursor moved in two different calls of one session
C3_Witness ==
    /\ stream # None
    /\ \E i, j \in Positions("step") :
          /\ i < j
          /\ \E k \in Positions("call") : i < k /\ k < j
    /\ stream.num_processed_frames > chunk_size

\* C4 (as claimed): in a session without misuse or error the callback is
\* invoked once per decode step: as many invocations as decode steps.
C4_CallbackPerStep ==
    ProperSession
        => Cardinality(Positions("cb")) = Cardinality(Positions("step"))

\* C4 (amended): the callback is invoked once after every decode step for
\* which decode_one_chunk returned false (with no callback registered that
\* invocation raises TypeError instead), never after a step that returned
\* true, which ends the call, and never without a decode step before it.
C4_CallbackPerUnfinishedStep ==
    \A i \in DOMAIN events :
        /\ events[i].kind = "cb"
              => /\ i > 1
                 /\ events[i - 1].kind = "step" /\ events[i - 1].info = "more"
        /\ (events[i].kind = "step" /\ events[i].info = "more")
              => /\ i < Len(events)
                 /\ \/ /\ events[i + 1].kind = "cb"
                       /\ events[i + 1].info = events[i + 1].cb
                       /\ events[i + 1].cb # NoCallback
                    \/ /\ events[i + 1].kind = "err"
                       /\ events[i + 1].info = "TypeError"
                       /\ events[i + 1].cb = NoCallback
        /\ (events[i].kind = "step" /\ events[i].info = "finished")
              => /\ i < Len(events)
                 /\ events[i + 1].kind = "ret"

\* a call with several invocations, and a step that returned true
C4_Witness ==
    /\ Cardinality(Positions("cb")) >= 2
    /\ \E i \in Positions("step") : events[i].info = "finished"
    /\ Positions("err") = {}

CallbackOrReturn == Positions("cb") \cup Positions("ret")

\* C5: the token sequence behind every callback invocation and every
\* returned text has the one of every earlier invocation or return of the
\* session as a prefix, and so has the delivered text.
C5_PrefixStable ==
    \A i, j \in CallbackOrReturn :
        i < j => /\ IsPrefix(events[i].hyp, events[j].hyp)
                 /\ IsPrefix(events[i].text, events[j].text)

\* two invocations, the later with more tokens than the non-empty earlier
C5_Witness ==
    \E i, j \in Positions("cb") :
        /\ i < j
        /\ events[i].hyp # <<>>
        /\ Len(events[i].hyp) < Len(events[j].hyp)

\* C6 (as claimed): in a session without misuse or error the j-th
\* invocation follows the j-th decode step and precedes the (j+1)-th, and
\* carries the cumulative transcript.
C6_JthCallbackAfterJthStep ==
    ProperSession => \A i \in Positions("cb") :
        /\ Cardinality({k \in Positions("step") : k < i})
              = Cardinality({k \in Positions("cb") : k <= i})
        /\ events[i].text = Detok(events[i].hyp)

\* C6 (amended): every invocation comes right after the decode step it
\* reports, before any other step, and carries the detokenization of the
\* whole hypothesis as it is after that step.
C6_CallbackFollowsItsStep ==
    \A i \in Positions("cb") :
        /\ i > 1
        /\ events[i - 1].kind = "step"
        /\ events[i - 1].hyp = events[i].hyp
        /\ events[i].text = Detok(events[i].hyp)
        /\ \A k \in Positions("cb") : k < i => IsPrefix(events[k].hyp, events[i].hyp)

\* an invocation whose step added tokens to a non-empty hypothesis
C6_Witness ==
    \E i \in Positions("cb") :
        /\ i > 3
        /\ events[i - 2].kind = "cb"
        /\ events[i - 2].hyp # <<>>
        /\ events[i - 2].hyp # events[i].hyp

\* input_finished was called once in this session, as the last call so far
FinishedOnce ==
    /\ stream # None
    /\ ops # <<>> /\ Last(ops).op = "input_finished"
    /\ Cardinality(OpPositions("input_finished")) = 1

\* the session received less audio than one analysis window
ShortSession == Received < frame_length

\* C7 (as claimed): input_finished on a session with less audio than one
\* analysis window returns a transcript, and the feature sequence is then
\* the pad_length+30 sentinel frames and nothing else.
C7_ShortSessionOnlyPadding ==
    (FinishedOnce /\ ShortSession /\ Positions("err") = {})
        => /\ Last(events).kind = "ret"
           /\ stream.features = PadTail(<<>>, pad_length + TAIL_MARGIN)

\* C7 (amended): input_finished on such a session leaves the frames of the
\* received samples followed by the 0.3 s of appended silence (at least one
\* frame), followed by exactly pad_length+30 sentinel frames; it returns a
\* transcript whenever a callback is registered, and raises TypeError only
\* when none is and a decode step ran.
C7_ShortSessionTailAndPadding ==
    (FinishedOnce /\ ShortSession)
        => /\ stream.features
                 = PadTail(Fbank([i \in 1..Received |-> i] \o SilenceTail),
                           pad_length + TAIL_MARGIN)
           /\ stream.num_frames = Len(stream.features)
           /\ stream.num_frames > pad_length + TAIL_MARGIN
           /\ ~stream.features[1].pad
           /\ \/ Last(events).kind = "ret"
              \/ /\ Last(events).kind = "err"
                 /\ Last(events).cb = NoCallback
                 /\ Positions("step") # {}
           /\ Last(events).cb # NoCallback => Last(events).kind = "ret"

\* a short session with some audio, finished with a callback registered
C7_Witness ==
    /\ FinishedOnce /\ ShortSession
    /\ Received > 0
    /\ Last(events).kind = "ret"
    /\ Positions("cb") # {}

\* C8: after input_finished, reset and a replay of the same calls give the
\* same observations as the first run: the same returned texts, the same
\* callback invocations, the same final text.
C8_ReplayReproduces ==
    (resets >= 2 /\ prev.ops # <<>> /\ Last(prev.ops).op = "input_finished"
                 /\ ops = prev.ops)
        => events = prev.events

\* a replayed session that decoded tokens in several calls
C8_Witness ==
    /\ resets >= 2 /\ prev.ops # <<>> /\ Last(prev.ops).op = "input_finished"
    /\ ops = prev.ops
    /\ Cardinality(OpPositions("accept_chunk")) >= 1
    /\ Cardinality(Positions("cb")) >= 2
    /\ Last(events).kind = "ret" /\ Last(events).hyp # <<>>

\* C9: with no callback registered, accept_chunk and input_finished run
\* their decode steps and return the text: no call raises for want of a
\* callback.
C9_NoCallbackNoError ==
    \A i \in Positions("err") : events[i].info # "TypeError"

\* C10: accept_chunk on a Model that was never reset raises at once: the
\* call is followed by the error, and by no decode step, no callback
\* invocation and no returned text.
C10_AcceptBeforeResetRaises ==
    resets = 0 =>
        \A i \in DOMAIN events :
            /\ events[i].kind \in {"call", "err"}
            /\ (events[i].kind = "call" /\ events[i].info = "accept_chunk")
                  => /\ i < Len(events)
                     /\ events[i + 1].kind = "err"
                     /\ events[i + 1].info = "AttributeError"

\* accept_chunk was called twice before any reset
C10_Witness ==
    /\ resets = 0
    /\ Cardinality({i \in Positions("call") : events[i].info = "accept_chunk"}) >= 2

Max(S) == CHOOSE x \in S : \A y \in S : y <= x

\* the calls of kind op entered so far in this session
Calls(op) == {i \in Positions("call") : events[i].info = op}

\* C11: a second input_finished() in one session, with a callback
\* registered, fails at once: the call is followed by an error, not by a
\* decode step, a callback invocation or a returned transcript, and it adds
\* no frame to the feature sequence.
C11_SecondFinishFails ==
    /\ \A i, j \in Calls("input_finished") :
          (i < j /\ events[j].cb # NoCallback /\ resets > 0)
              => /\ j < Len(events)
                 /\ events[j + 1].kind = "err"
    /\ (stream # None /\ Cardinality(OpPositions("input_finished")) >= 2)
          => Len(stream.features)
                <= NumFbankFrames(Received + TailSamples) + pad_length + TAIL_MARGIN

\* an accept_chunk step taken after input_finished() in the same session
AcceptAfterFinish ==
    /\ stream # None
    /\ OpPositions("input_finished") # {}
    /\ Len(ops') = Len(ops) + 1
    /\ Last(ops').op = "accept_chunk"

\* C12: an accept_chunk call made after input_finished() and before the
\* next reset() feeds no audio into the buffer, leaves the feature sequence
\* as it is and runs no decode step.
C12_AcceptAfterFinishInert ==
    [][AcceptAfterFinish
          => /\ stream'.audio_samples = stream.audio_samples
             /\ stream'.features = stream.features
             /\ stream'.num_processed_frames = stream.num_processed_frames]_vars

\* the frames at and above the processed-frames cursor
Unprocessed == SubSeq(stream.features, stream.num_processed_frames + 1,
                      Len(stream.features))
OnlyPadding(frames) == \A i \in DOMAIN frames : frames[i].pad

\* C13 (as claimed): when input_finished() returns in a session without
\* misuse or error, every frame that is not termination padding lies below
\* the processed-frames cursor.
C13_FlushedOnReturn ==
    (FinishedOnce /\ ProperSession /\ Last(events).kind = "ret")
        => OnlyPadding(Unprocessed)

\* C13 (amended): when input_finished() returns after its loop ended for
\* want of readiness (no step reported exhaustion, the stream is not done),
\* fewer than 2*chunk_size + pad_length frames are unprocessed, and they are
\* all termination padding as long as that many frames fit into the
\* pad_length+30 frames of padding.
C13_FlushedUnlessExhausted ==
    (FinishedOnce /\ ReturnedNotReady)
        => /\ Len(Unprocessed) < Threshold
           /\ stream.num_frames = Len(stream.features)
           /\ Threshold <= pad_length + TAIL_MARGIN + 1 => OnlyPadding(Unprocessed)

\* input_finished returned after decoding the rest of a long utterance
C13_Witness ==
    /\ FinishedOnce /\ ReturnedNotReady
    /\ Received >= LongChunk
    /\ Cardinality({i \in Positions("step") : i > Max(Calls("input_finished"))}) >= 2
    /\ Unprocessed # <<>>
    /\ Last(events).hyp # <<>>

\* reset() was the last call
JustReset == Len(ops) = 1 /\ ops[1].op = "reset"

\* C14: whatever the Model was doing, right after reset() it holds a fresh
\* session (no audio, no frames, cursor 0, not finished, not done, initial
\* recurrent state, empty hypothesis) and nothing was raised or delivered.
C14_ResetGivesFreshSession ==
    JustReset
        => /\ stream # None
           /\ stream.audio_samples = <<>>
           /\ stream.total_audio_samples = 0
           /\ stream.num_stable_frames = 0
           /\ stream.features = <<>>
           /\ stream.num_frames = 0
           /\ stream.num_processed_frames = 0
           /\ ~stream.is_input_finished
           /\ ~stream.done
           /\ stream.states = InitStates
           /\ DecodingResult(stream) = <<>>
           /\ stream.incremental = (mode = "incremental")
           /\ events = <<>>

\* reset() in the middle of an utterance that had decoded tokens
C14_Witness ==
    /\ JustReset /\ resets = 2
    /\ \E i \in DOMAIN prev.ops : prev.ops[i].op = "accept_chunk"
    /\ \A i \in DOMAIN prev.ops : prev.ops[i].op # "input_finished"
    /\ \E i \in DOMAIN prev.events :
          prev.events[i].kind = "cb" /\ prev.events[i].hyp # <<>>

\* the call an observation belongs to, and the invocations of that call
\* made before the observation
CallOf(j) == Max({i \in Positions("call") : i < j})
CallbacksOf(j) == {k \in Positions("cb") : CallOf(j) < k /\ k < j}
ReturnsOf(op) == {j \in Positions("ret") : events[j].info = op}

\* C15 (as claimed): in a session without misuse or error the text
\* accept_chunk returns is the detokenized hypothesis, equal to the text of
\* the last invocation of that call if there was one.
C15_ReturnEqualsLastCallback ==
    ProperSession => \A j \in ReturnsOf("accept_chunk") :
        /\ events[j].text = Detok(events[j].hyp)
        /\ CallbacksOf(j) # {}
              => events[j].text = events[Max(CallbacksOf(j))].text

\* C15 (amended): the text accept_chunk returns is the detokenization of
\* the hypothesis after all decode steps of the call; it equals the text of
\* the last invocation when the call ended right after it and extends it
\* when a last step reported exhaustion; when no decode step ran it equals
\* the text the previous call returned (empty for the first call).
C15_ReturnIsFullHypothesis ==
    \A j \in ReturnsOf("accept_chunk") :
        /\ events[j].text = Detok(events[j].hyp)
        /\ stream # None /\ (j = Len(events) => events[j].hyp = DecodingResult(stream))
        /\ events[j - 1].kind = "cb" => events[j].text = events[j - 1].text
        /\ CallbacksOf(j) # {}
              => IsPrefix(events[Max(CallbacksOf(j))].text, events[j].text)
        /\ events[j - 1].kind = "call"
              => /\ j = 2 => events[j].text = <<>>
                 /\ (j > 2 /\ events[j - 2].kind = "ret")
                       => events[j].text = events[j - 2].text

\* an accept_chunk that returned the text of its last invocation, followed
\* by one that ran no step and returned the same non-empty text
C15_Witness ==
    \E j \in ReturnsOf("accept_chunk") :
        /\ j > 4
        /\ events[j - 1].kind = "call"
        /\ events[j - 2].kind = "ret" /\ events[j - 2].info = "accept_chunk"
        /\ events[j - 3].kind = "cb"
        /\ events[j].text # <<>>

\* an accept_chunk step, before any input_finished of the session, whose
\* chunk adds no frame: the signal has as many frames with it as without
AcceptsShortChunk ==
    /\ stream # None
    /\ OpPositions("input_finished") = {}
    /\ Len(ops') = Len(ops) + 1
    /\ Last(ops').op = "accept_chunk"
    /\ NumFbankFrames(Received + Last(ops').n) = NumFbankFrames(Received)

\* the call returned, having run no decode step and invoked no callback,
\* the stream is as before but for the samples added to the raw buffer
ShortChunkOnlyBuffered ==
    /\ Len(events') = Len(events) + 2
    /\ events'[Len(events) + 1].kind = "call"
    /\ events'[Len(events) + 2].kind = "ret"
    /\ stream'.num_processed_frames = stream.num_processed_frames
    /\ stream'.features = stream.features
    /\ stream'.num_frames = stream.num_frames
    /\ DecodingResult(stream') = DecodingResult(stream)
    /\ Cat(stream'.audio_samples) = Cat(stream.audio_samples) \o NextChunk(Last(ops').n)

\* C16 (as claimed): with a callback registered and no call having raised,
\* an accept_chunk whose chunk adds no frame returns without a decode step
\* or a callback invocation and changes nothing but the raw buffer.
C16_ShortChunkRunsNothing ==
    [][(AcceptsShortChunk /\ partial_callback # NoCallback /\ Positions("err") = {})
          => ShortChunkOnlyBuffered]_vars

\* C16 (amended): the same, for a stream that is not ready when the call is
\* made (fewer than 2*chunk_size + pad_length unprocessed frames, or done);
\* a stream left ready by a step that reported exhaustion decodes on.
C16_ShortChunkOnIdleStream ==
    [][(/\ AcceptsShortChunk
        /\ \/ stream.num_frames - stream.num_processed_frames < Threshold
           \/ stream.done)
          => ShortChunkOnlyBuffered]_vars

\* a chunk shorter than one window was buffered without a frame, and later
\* an empty chunk was accepted after the cursor had moved
C16_Witness ==
    /\ Len(ops) = 4 /\ ops[2].op = "accept_chunk" /\ ops[2].n = ShortChunk
    /\ events[2].kind = "ret"
    /\ Last(ops).op = "accept_chunk" /\ Last(ops).n = 0
    /\ Last(events).kind = "ret" /\ events[Len(events) - 1].kind = "call"
    /\ stream.num_processed_frames > 0
    /\ stream.num_frames - stream.num_processed_frames < Threshold
    /\ OpPositions("input_finished") = {}

\* C17: a decode step that reports exhaustion is the last thing its call
\* does before returning: the next observation is the return of that call,
\* with the detokenized hypothesis as that step left it and the cursor where
\* that step left it; no further step, no invocation, no error.
C17_ExhaustionEndsCallNormally ==
    \A i \in Positions("step") :
        events[i].info = "finished"
            => /\ i < Len(events)
               /\ events[i + 1].kind = "ret"
               /\ events[i + 1].info = events[CallOf(i)].info
               /\ events[i + 1].text = Detok(events[i].hyp)
               /\ events[i + 1].cursor = events[i].cursor

\* a call returned a non-empty text right after a step reported exhaustion,
\* with the stream still ready and not done
C17_Witness ==
    /\ stream # None /\ ~stream.done
    /\ Len(events) > 2 /\ Last(events).kind = "ret"
    /\ events[Len(events) - 1].kind = "step"
    /\ events[Len(events) - 1].info = "finished"
    /\ stream.num_frames - stream.num_processed_frames >= Threshold
    /\ Last(events).text # <<>>

StepErrors == {i \in Positions("err") : events[i].info = "InternalError"}

\* C18: an error raised by the acoustic decode step ends the call with
\* that error: it comes in place of the step (after the call was entered or
\* after the invocation of the step before), and the next observation, if
\* any, is a new call; no invocation and no returned text follow it.
C18_StepErrorPropagates ==
    \A i \in StepErrors :
        /\ i > 1
        /\ events[i - 1].kind \in {"call", "cb"}
        /\ i < Len(events) => events[i + 1].kind = "call"
        /\ \A k \in CallbackOrReturn : k > i => CallOf(k) > i

\* the step failed in the middle of a loop, after an invocation had
\* delivered a non-empty text, and the caller called again
C18_Witness ==
    \E i \in StepErrors :
        /\ events[i - 1].kind = "cb" /\ events[i - 1].text # <<>>
        /\ i < Len(events)

\* C19: the registered callback changes only by set_partial_callback, which
\* replaces it by its argument (reset, accept_chunk and input_finished leave
\* it as it is), and every invocation made by a call goes to the callback
\* registered at that moment and to no other.
C19_OneActiveCallback ==
    [][/\ partial_callback' # partial_callback
             => /\ ops' # <<>>
                /\ Last(ops').op = "set_partial_callback"
       /\ (Len(ops') = Len(ops) + 1 /\ Last(ops').op = "set_partial_callback")
             => partial_callback' = Last(ops').cb
       /\ \A i \in DOMAIN events' :
             (i > Len(events) /\ events'[i].kind = "cb")
                 => /\ events'[i].info = partial_callback
                    /\ partial_callback # NoCallback
                    /\ partial_callback' = partial_callback]_vars

\* a session, begun with a callback registered before its reset, in which
\* another callback was registered between two calls: the invocations of
\* the earlier call went to the first, those of the later call to the second
C19_Witness ==
    /\ cbsets = 2 /\ resets > 0
    /\ ops[1].op = "reset" /\ ops[1].cb # NoCallback
    /\ \E i, j \in Positions("cb") :
          /\ i < j
          /\ events[i].info = ops[1].cb
          /\ events[j].info # events[i].info
          /\ events[j].info = partial_callback

\* an accept_chunk step with a stereo chunk on a Model that was reset
AcceptsStereo ==
    /\ stream # None
    /\ Len(ops') = Len(ops) + 1
    /\ Last(ops').op = "accept_chunk_stereo"

\* C20: accept_chunk with a stereo chunk of n sample positions raises
\* nothing, and the raw buffer and the sample count of the stream grow by n.
C20_StereoAveragedToMono ==
    [][AcceptsStereo
          => /\ Last(events').kind # "err"
             /\ Len(Cat(stream'.audio_samples))
                   = Len(Cat(stream.audio_samples)) + Last(ops').n
             /\ stream.incremental
                   => stream'.total_audio_samples
                         = stream.total_audio_samples + Last(ops').n]_vars

\* the decode steps of the call entered at observation c
StepsOf(c) == {i \in Positions("step") : CallOf(i) = c}
\* the most decode steps a loop may run that starts with avail unprocessed
\* frames: one per chunk_size frames in excess of the look-ahead
StepBudget(avail) ==
    IF avail < Threshold THEN 0 ELSE (avail - Threshold) \div chunk_size + 1

\* C21: every call has ended (returned or raised) and its loop ran at most
\* as many decode steps as the unprocessed frames present at its start
\* allow: the k-th step of a call found exactly (k-1)*chunk_size frames
\* fewer than the first, and still at least 2*chunk_size + pad_length.
C21_LoopBounded ==
    /\ events # <<>> => Last(events).kind \in {"ret", "err"}
    /\ \A c \in Positions("call") :
          /\ \E e \in DOMAIN events :
                /\ e > c /\ events[e].kind \in {"ret", "err"}
                /\ \A k \in Positions("call") : ~(c < k /\ k < e)
          /\ StepsOf(c) # {} =>
                LET first == CHOOSE i \in StepsOf(c) : \A k \in StepsOf(c) : i <= k
                IN /\ Cardinality(StepsOf(c)) <= StepBudget(events[first].avail)
                   /\ \A i \in StepsOf(c) :
                         /\ events[i].avail >= Threshold
                         /\ events[i].avail = events[first].avail
                               - chunk_size * Cardinality({k \in StepsOf(c) : k < i})
                         /\ events[i].cursor > events[CallOf(i)].cursor

\* a call that ran as many steps as its frames allowed, more than two
C21_Witness ==
    \E c \in Positions("call") :
        /\ Cardinality(StepsOf(c)) >= 3
        /\ \E i \in StepsOf(c) :
              /\ \A k \in StepsOf(c) : i <= k
              /\ Cardinality(StepsOf(c)) = StepBudget(events[i].avail)

\* the observations es, those after the first n marked as made while cb
\* was the registered callback
Stamp(es, n, cb) ==
    [i \in DOMAIN es |-> IF i > n THEN [es[i] EXCEPT !.cb = cb] ELSE es[i]]

\* A Model run alone: the stream and the observations after the calls rest
\* were made, one after the other, on a Model with stream s and
\* observations evs that had received so many samples.
RECURSIVE RunAlone(_, _, _, _)
RunAlone(s, evs, received, rest) ==
    IF rest = <<>> THEN [stream |-> s, events |-> evs]
    ELSE LET o == Head(rest)
             res == CASE o.op = "accept_chunk" ->
                            AcceptChunkResult(s, evs, o.cb,
                                [i \in 1..o.n |-> received + i], 1)
                      [] o.op = "input_finished" ->
                            InputFinishedResult(s, evs, o.cb)
                      [] OTHER -> [stream |-> s, events |-> evs]
         IN RunAlone(res.stream, Stamp(res.events, Len(evs), o.cb),
                     received + o.n, Tail(rest))

\* the session of Model m so far is what its calls give when made alone
RunsAsAlone(m) ==
    (m.ops # <<>> /\ m.ops[1].op = "reset")
        => LET alone == RunAlone(NewStream(mode = "incremental"), <<>>, 0,
                                 Tail(m.ops))
           IN /\ m.stream = alone.stream
              /\ m.events = alone.events

\* C22: with two Models driven in any interleaving, the stream (buffer,
\* features, cursor, recurrent state, hypothesis) and the observations
\* (returned texts, callback invocations) of each are what its own calls
\* give when made alone, and a call on one leaves the other as it is.  The
\* Model in hand is compared with its run alone in every state; the other
\* one was in hand when it was last called and is unchanged since.
C22_SessionsIndependent ==
    /\ []RunsAsAlone(Me)
    /\ [][\/ other' = other
          \/ other' = Me /\ Me' = other]_vars

\* both Models are in a session that decoded and delivered a text to its
\* callback, and the two sessions differ
C22_Witness ==
    /\ Len(ops) >= 2 /\ ops[1].op = "reset"
    /\ Len(other.ops) >= 2 /\ other.ops[1].op = "reset"
    /\ \E i \in Positions("cb") : events[i].text # <<>>
    /\ \E i \in DOMAIN other.events :
          other.events[i].kind = "cb" /\ other.events[i].text # <<>>
    /\ stream # other.stream

\* the samples a session received, numbered in arrival order, followed by
\* the zero samples input_finished appends
SignalWithTail == [i \in 1..Received |-> i] \o [i \in 1..TailSamples |-> 0]

\* C23: after input_finished on a session that received N samples, in both
\* feature modes the feature sequence is the frames of the N samples followed
\* by int(0.3 * sample_rate) zeros, then exactly pad_length+30 sentinel frames
\* and nothing after them; the frame count is at least N / frame_shift plus
\* pad_length + 30 (150 + pad_length + 30 for 1.5 s of audio at a 10 ms
\* shift).
C23_FinishedFeatureLayout ==
    FinishedOnce
        => /\ stream.num_frames = Len(stream.features)
           /\ stream.num_frames
                 = NumFbankFrames(Received + TailSamples) + pad_length + TAIL_MARGIN
           /\ \A i \in 1..stream.num_frames :
                 stream.features[i]
                     = IF i <= NumFbankFrames(Received + TailSamples)
                       THEN Frame(SignalWithTail, i) ELSE PadFrame
           /\ stream.num_frames
                 >= Received \div frame_shift + pad_length + TAIL_MARGIN

\* a finished session of two long chunks, in incremental mode
C23_Witness ==
    /\ FinishedOnce
    /\ Received >= 2 * LongChunk
    /\ stream.incremental
    /\ Last(events).kind = "ret"

\* The stream a DecodeStream of the given mode is after the calls of a log
\* were made on it, the samples numbered in arrival order.
RECURSIVE StreamAlone(_, _, _)
StreamAlone(s, received, rest) ==
    IF rest = <<>> THEN s
    ELSE LET o == Head(rest)
             next == CASE o.op = "accept_waveform"
                            -> AcceptWaveform(s, [i \in 1..o.n |-> received + i])
                       [] o.op = "stream_input_finished"
                            -> StreamInputFinished(s)
                       [] OTHER -> s
         IN StreamAlone(next, received + o.n, Tail(rest))

\* the stream of the other feature mode after the same calls
InOtherMode == StreamAlone(NewStream(~stream.incremental), 0, ops)

\* C24: input_finished on an incremental stream that got at least one
\* accept_waveform call and less audio than one analysis window leaves
\* exactly pad_length+30 sentinel frames, num_frames = pad_length+30, the
\* count a full-recompute stream has after the same calls.
C24_NoStableFrameOnlyPadding ==
    (/\ stream.incremental
     /\ ops # <<>> /\ Last(ops).op = "stream_input_finished"
     /\ OpPositions("accept_waveform") # {}
     /\ Received < frame_length)
        => /\ stream.num_stable_frames = 0
           /\ stream.features = [i \in 1..(pad_length + TAIL_MARGIN) |-> PadFrame]
           /\ stream.num_frames = pad_length + TAIL_MARGIN
           /\ InOtherMode.num_frames = stream.num_frames

\* two chunks that together are shorter than one window, then input_finished
C24_Witness ==
    /\ stream.incremental
    /\ Len(ops) = 3 /\ Last(ops).op = "stream_input_finished"
    /\ ops[1].op = "accept_waveform" /\ ops[1].n > 0
    /\ ops[2].op = "accept_waveform" /\ ops[2].n > 0
    /\ Received < frame_length
    /\ stream.num_frames = pad_length + TAIL_MARGIN

\* the number of accept_waveform calls so far that passed a non-empty chunk
NonEmptyAccepts ==
    Cardinality({i \in OpPositions("accept_waveform") : ops[i].n > 0})

\* C25: in every state the raw audio buffer, its pieces joined in order, is
\* the samples of all accepted chunks in arrival order, each once; merging
\* the pieces into one in incremental mode leaves that content as it was,
\* and in incremental mode the running sample counter is the buffer length.
C25_BufferIsAcceptedAudio ==
    LET buffer == Flatten(stream.audio_samples)
    IN /\ buffer = [i \in 1..Received |-> i]
       /\ Len(stream.audio_samples) <= Cardinality(OpPositions("accept_waveform"))
       /\ stream.incremental => stream.total_audio_samples = Len(buffer)

\* an incremental stream that merged earlier chunks into one piece and
\* appended a later chunk to it
C25_Witness ==
    /\ stream.incremental
    /\ NonEmptyAccepts >= 3
    /\ Len(stream.audio_samples) = 2
    /\ Len(stream.audio_samples[1]) > MaxChunkLen
    /\ Len(stream.audio_samples[2]) > 0

\* an accept_chunk or input_finished step on a Model in a session
SessionCall ==
    /\ stream # None
    /\ Len(ops') = Len(ops) + 1
    /\ Last(ops').op \in {"accept_chunk", "input_finished"}

\* the frames below the cursor the call found are still the same frames
ProcessedFramesKept ==
    \A i \in 1..stream.num_processed_frames :
        /\ i <= Len(stream'.features)
        /\ stream'.features[i] = stream.features[i]

\* C26: across any accept_chunk or input_finished call of a session the
\* total frame count does not decrease and no frame below the
\* processed-frames cursor is replaced by a different frame.
C26_FeaturesOnlyGrow ==
    [][SessionCall
          => /\ stream'.num_frames >= stream.num_frames
             /\ ProcessedFramesKept]_vars

\* the same for the calls up to and including the first input_finished of a
\* session, the calls the lifecycle allows
C26_ProperOnlyGrow ==
    [][(SessionCall /\ OpPositions("input_finished") = {})
          => /\ stream'.num_frames >= stream.num_frames
             /\ ProcessedFramesKept]_vars

\* an accept_waveform step on an incremental stream that holds stable frames
AcceptOnStable ==
    /\ stream.incremental
    /\ stream.num_stable_frames > 0
    /\ Len(ops') = Len(ops) + 1
    /\ Last(ops').op = "accept_waveform"

\* the samples from the start of the last stable frame to the end of the
\* buffer after the step
AvailableAfter ==
    stream'.total_audio_samples - (stream.num_stable_frames - 1) * frame_shift

\* the step extracted again: it merged the buffer into one piece
ReExtracted == stream'.audio_samples = <<Flatten(stream'.audio_samples)>>

\* the sentinel frames the step pads with: none before input_finished
PaddedAgain == IF stream.is_input_finished THEN pad_length + TAIL_MARGIN ELSE 0

\* C27: an accept_waveform call on an incremental stream with stable frames
\* extracts again exactly when the samples from the start of the last stable
\* frame to the end of the buffer are at least frame_length + frame_shift;
\* when it does, all recomputed frames but the first are appended, at least
\* one, and when it does not, the buffer holds no complete frame beyond the
\* stable ones (on a stream that is not finished the stable frames are then
\* all the frames of the buffer).
C27_ReExtractionGuard ==
    [][AcceptOnStable
          => LET stable == stream.num_stable_frames
                 appended == Len(stream'.features) - Len(stream.features)
                                - PaddedAgain
                 whole == Flatten(stream'.audio_samples)
             IN IF AvailableAfter >= frame_length + frame_shift
                THEN /\ ReExtracted
                     /\ appended = NumFbankFrames(AvailableAfter) - 1
                     /\ appended >= 1
                     /\ stream'.num_stable_frames = Len(stream.features) + appended
                     /\ \A j \in 1..appended :
                           LET f == stream'.features[Len(stream.features) + j]
                           IN /\ ~f.first /\ ~f.pad
                              /\ f.lo = whole[(stable + j - 1) * frame_shift + 1]
                ELSE /\ appended = 0
                     /\ stream'.num_stable_frames = stable
                     /\ stream'.audio_samples
                           = Append(stream.audio_samples, NextChunk(Last(ops').n))
                     /\ NumFbankFrames(stream'.total_audio_samples) <= stable
                     /\ ~stream.is_input_finished
                           => NumFbankFrames(stream'.total_audio_samples) = stable]_vars

\* a stream took a chunk without extracting and then one that made it
\* extract again over the overlap
C27_Witness ==
    /\ stream.incremental /\ ~stream.is_input_finished
    /\ Len(ops) >= 3
    /\ stream.audio_samples = <<Flatten(stream.audio_samples)>>
    /\ ops[Len(ops) - 1].n > 0
    /\ NumFbankFrames(Received - Last(ops).n)
          = NumFbankFrames(Received - Last(ops).n - ops[Len(ops) - 1].n)
    /\ NumFbankFrames(Received - Last(ops).n) > 0
    /\ stream.num_stable_frames > NumFbankFrames(Received - Last(ops).n)

\* what was observed of a run: the kind of every event (call, step,
\* callback, return, error) and the unprocessed frames it saw
Course(evs) == [i \in DOMAIN evs |-> <<evs[i].kind, evs[i].avail>>]

\* the session of the other feature mode after the same calls
SessionInOtherMode ==
    RunAlone(NewStream(~stream.incremental), <<>>, 0, Tail(ops))

\* C28: after every accept_chunk call of a session that is not finished the
\* total frame count is 0 below frame_length received samples and
\* floor((N - frame_length) / frame_shift) + 1 from there on, in incremental
\* mode as in full-recompute mode fed the same chunks; is_ready answers the
\* same in both, and every call ran the same number of decode steps.
C28_SameFrameCountEveryCall ==
    (/\ stream # None
     /\ ops # <<>> /\ ops[1].op = "reset"
     /\ OpPositions("input_finished") = {})
        => /\ stream.num_frames
                 = IF Received < frame_length THEN 0
                   ELSE (Received - frame_length) \div frame_shift + 1
           /\ SessionInOtherMode.stream.num_frames = stream.num_frames
           /\ is_ready(SessionInOtherMode.stream, chunk_size)
                 = is_ready(stream, chunk_size)
           /\ Course(SessionInOtherMode.events) = Course(events)

\* an incremental session in which two accept_chunk calls ran decode steps
C28_Witness ==
    /\ stream # None /\ stream.incremental
    /\ OpPositions("input_finished") = {}
    /\ \E i, j \in Positions("step") : CallOf(i) # CallOf(j)
    /\ Last(events).kind = "ret"

\* the decode steps that ran inside input_finished calls
FinishSteps ==
    {i \in Positions("step") : events[CallOf(i)].info = "input_finished"}

\* C29: a decode step inside input_finished that does not end the loop is
\* followed at once by an invocation of the registered callback with the
\* detokenized hypothesis of that step, as inside accept_chunk; the text
\* input_finished returns is the detokenization of the hypothesis after the
\* last step of the call, and every text given to the callback in the
\* session, the last one included, is a prefix of it, token for token.
C29_FinishStepsReportAndReturn ==
    /\ \A i \in Positions("step") :
          (events[i].info = "more" /\ events[i].cb # NoCallback)
              => /\ i < Len(events)
                 /\ events[i + 1].kind = "cb"
                 /\ events[i + 1].info = events[i].cb
                 /\ events[i + 1].hyp = events[i].hyp
                 /\ events[i + 1].text = Detok(events[i].hyp)
    /\ \A i \in Positions("cb") : events[i - 1].kind = "step"
    /\ \A j \in ReturnsOf("input_finished") :
          /\ events[j].text = Detok(events[j].hyp)
          /\ StepsOf(CallOf(j)) # {}
                => events[j].hyp = events[Max(StepsOf(CallOf(j)))].hyp
          /\ \A i \in Positions("cb") :
                i < j => /\ IsPrefix(events[i].hyp, events[j].hyp)
                         /\ IsPrefix(events[i].text, events[j].text)

\* input_finished ran steps that reported to the callback and a last one
\* that added tokens without a report, and returned the longer text
C29_Witness ==
    \E j \in ReturnsOf("input_finished") :
        /\ j = Len(events)
        /\ events[j - 1].kind = "step"
        /\ \E i \in FinishSteps \cap StepsOf(CallOf(j)) :
              /\ events[i + 1].kind = "cb"
              /\ events[i + 1].text # <<>>
              /\ events[i + 1].text # events[j].text

\* the decode steps among some observations, in order: the cursor and the
\* hypothesis each left
RECURSIVE StepTrail(_)
StepTrail(evs) ==
    IF evs = <<>> THEN <<>>
    ELSE IF Head(evs).kind = "step"
         THEN <<<<Head(evs).cursor, Head(evs).hyp>>>> \o StepTrail(Tail(evs))
         ELSE StepTrail(Tail(evs))

\* the session that gets the same audio as one chunk and is then finished
SingleChunkSession ==
    RunAlone(NewStream(mode = "incremental"), <<>>, 0,
             <<Op("accept_chunk", Received, Last(ops).cb),
               Op("input_finished", 0, Last(ops).cb)>>)

\* a callback was registered at every call of the session
AlwaysCallback == \A i \in DOMAIN ops : ops[i].cb # NoCallback

\* the session ran the decode steps of the single-chunk session, each
\* leaving the same cursor and hypothesis, and ended as it did, with the
\* same final transcript
SameAsSingleChunk ==
    /\ StepTrail(events) = StepTrail(SingleChunkSession.events)
    /\ Last(events).kind = Last(SingleChunkSession.events).kind
    /\ Last(events).text = Last(SingleChunkSession.events).text

\* C30: a finished session runs the same number of decode steps, each over
\* the same window, and returns the same final transcript as the session
\* that got the same audio as a single chunk, in both feature modes.
C30_ChunkingInvariant == FinishedOnce => SameAsSingleChunk

\* the same for the sessions in which a callback was registered at every
\* call
C30_ChunkingInvariantWithCallback ==
    (FinishedOnce /\ AlwaysCallback) => SameAsSingleChunk

====
